---- MODULE Spec2Model ----
(***************************************************************************)
(* Model of the gRPC/RoadRunner bridge: the service proxy (proxy.go:       *)
(* Proxy.invoke, makePayload, responseMetadata, getPld/putPld), the error  *)
(* translator (GetOriginalErr, wrapError) and the server assembly          *)
(* (server.go).                                                            *)
(*                                                                         *)
(* Go strings and byte slices are sequences of byte values (0..255), so    *)
(* that splitting, number parsing and wire decoding are computed and not   *)
(* assumed.  A uint32 is a pair <<hi, lo>> of 16-bit limbs.                *)
(***************************************************************************)
EXTENDS Integers, Sequences, FiniteSets, TLC

VARIABLES
    pc,         \* per call: where the handler / invoke stands
    req,        \* per call: what the transport handed to the handler
    pld,        \* per call: the Payload object invoke holds (0: none)
    seen,       \* per call: the body and context pool.Exec read
    out,        \* per call: what pool.Exec returned
    meta,       \* per call: what responseMetadata returned
    ret,        \* per call: what invoke is returning
    result,     \* per call: what the handler returned
    nexec,      \* per call: pool.Exec calls
    nget,       \* per call: Payload acquires (getPld)
    nput,       \* per call: Payload releases (putPld)
    objs,       \* the Payload objects ever allocated by pldPool.New
    pooled,     \* the Payload objects resting in pldPool
    readers,    \* the calls holding mu for reading
    writer,     \* reset/destroy: "idle", "waiting" in mu.Lock, "active"
    werr,       \* wrapError: the error handed to wrapError
    wres,       \* wrapError: the value it returned
    wpc,        \* wrapError: "in" before the call, "out" after it
    via,        \* per call: the call the handler made to the interceptor
    inv,        \* per call: the method and body invoke was called with
    config,     \* server: p.config of the plugin
    files,      \* server: what parser.File gives for each proto path
    spc,        \* server: where createGRPCserver stands
    opts,       \* server: the options serverOptions returned
    fi,         \* server: the loop index i over p.config.Proto
    svcs,       \* server: the services of the current file still to do
    px,         \* server: the proxy under construction
    proxyList,  \* server: p.proxyList
    registered, \* server: the descriptors installed on the grpc.Server
    serr        \* server: the error createGRPCserver returned

callVars ==
    <<pc, req, via, inv, pld, seen, out, meta, ret, result, nexec, nget, nput>>

sharedVars == <<objs, pooled, readers, writer>>

wrapVars == <<werr, wres, wpc>>

serverVars ==
    <<config, files, spc, opts, fi, svcs, px, proxyList, registered, serr>>

vars == <<callVars, sharedVars, wrapVars, serverVars>>

None == [kind |-> "none"]

\* wrapError is not being exercised on its own
WrapIdle == werr = None /\ wres = None /\ wpc = "off"

\* createGRPCserver is not being exercised
ServerIdle ==
    /\ config = None /\ files = None /\ spc = "off" /\ opts = None /\ fi = 0
    /\ svcs = <<>> /\ px = None /\ proxyList = <<>> /\ registered = <<>>
    /\ serr = None

-----------------------------------------------------------------------------
(* Strings as byte sequences *)

\* the ASCII code of each character the model writes
Ascii ==
    LET Lowercase ==
            <<"a", "b", "c", "d", "e", "f", "g", "h", "i", "j", "k", "l", "m",
              "n", "o", "p", "q", "r", "s", "t", "u", "v", "w", "x", "y", "z">>
        Uppercase ==
            <<"A", "B", "C", "D", "E", "F", "G", "H", "I", "J", "K", "L", "M",
              "N", "O", "P", "Q", "R", "S", "T", "U", "V", "W", "X", "Y", "Z">>
        Digits == <<"0", "1", "2", "3", "4", "5", "6", "7", "8", "9">>
    IN  [c \in {Lowercase[i] : i \in 1..26} |->
            96 + CHOOSE i \in 1..26 : Lowercase[i] = c]
        @@ [c \in {Uppercase[i] : i \in 1..26} |->
            64 + CHOOSE i \in 1..26 : Uppercase[i] = c]
        @@ [c \in {Digits[i] : i \in 1..10} |->
            47 + CHOOSE i \in 1..10 : Digits[i] = c]
        @@ ("|" :> 124) @@ (":" :> 58) @@ ("-" :> 45) @@ ("+" :> 43)
        @@ (" " :> 32) @@ ("/" :> 47) @@ ("=" :> 61) @@ ("." :> 46)
        @@ ("\n" :> 10) @@ ("\t" :> 9) @@ ("\r" :> 13) @@ ("!" :> 33)

\* the byte string of a sequence of characters
S(cs) == [i \in 1..Len(cs) |-> Ascii[cs[i]]]

delimiter == S(<<"|", ":", "|">>)

\* strings.Index: the first position of sep in s, 0 when there is none
Index(s, sep) ==
    LET hits == {i \in 1..(Len(s) - Len(sep) + 1) :
                    SubSeq(s, i, i + Len(sep) - 1) = sep}
    IN  IF hits = {} THEN 0 ELSE CHOOSE i \in hits : \A j \in hits : i <= j

\* strings.Contains
Contains(s, sep) == Index(s, sep) > 0

\* strings.Split with a non-empty separator
RECURSIVE Split(_, _)
Split(s, sep) ==
    LET i == Index(s, sep)
    IN  IF i = 0 THEN <<s>>
        ELSE <<SubSeq(s, 1, i - 1)>>
                \o Split(SubSeq(s, i + Len(sep), Len(s)), sep)

\* strings.Join, the inverse of Split: how a worker builds a message
RECURSIVE Join(_, _)
Join(parts, sep) ==
    IF Len(parts) = 0 THEN <<>>
    ELSE IF Len(parts) = 1 THEN parts[1]
    ELSE parts[1] \o sep \o Join(Tail(parts), sep)

-----------------------------------------------------------------------------
(* Unsigned 32-bit values as two 16-bit limbs *)

LimbBase == 2 ^ 16

U32(n) == <<0, n>>          \* a value below 2^16

MaxUint32 == <<LimbBase - 1, LimbBase - 1>>

Less(a, b) == a[1] < b[1] \/ (a[1] = b[1] /\ a[2] < b[2])

\* n * 10 + d; the high limb reaches LimbBase or more on overflow of 32 bits
MulAdd(n, d) ==
    LET lo == n[2] * 10 + d
        hi == n[1] * 10 + (lo \div LimbBase)
    IN  <<hi, lo % LimbBase>>

RECURSIVE ParseFrom(_, _, _)
ParseFrom(s, i, n) ==
    IF i > Len(s) THEN [err |-> FALSE, val |-> n]
    ELSE IF s[i] \notin 48..57 THEN [err |-> TRUE, val |-> U32(0)]
    ELSE LET m == MulAdd(n, s[i] - 48)
         IN  IF m[1] >= LimbBase THEN [err |-> TRUE, val |-> MaxUint32]
             ELSE ParseFrom(s, i + 1, m)

\* strconv.ParseUint(s, 10, 32): digits only, no sign, not empty, below 2^32
ParseUint(s) ==
    IF s = <<>> THEN [err |-> TRUE, val |-> U32(0)]
    ELSE ParseFrom(s, 1, U32(0))

-----------------------------------------------------------------------------
(* Protocol-buffer wire decoding, as proto.Unmarshal does it *)

\* a base-128 varint at b[i]: [next |-> index after it (0: malformed), val]
RECURSIVE ReadVarint(_, _, _)
ReadVarint(b, i, k) ==
    IF i > Len(b) \/ k > 10 THEN [next |-> 0, val |-> 0]
    ELSE IF b[i] < 128 THEN [next |-> i + 1, val |-> b[i]]
    ELSE LET r == ReadVarint(b, i + 1, k + 1)
         IN  IF r.next = 0 THEN r
             ELSE [next |-> r.next, val |-> (b[i] - 128) + 128 * r.val]

\* protowire.ConsumeFieldValue: the index after the value of a field of
\* number num and wire type wt starting at b[i]; 0 when malformed
RECURSIVE ConsumeFieldValue(_, _, _, _)
RECURSIVE ConsumeGroup(_, _, _)
ConsumeFieldValue(b, i, num, wt) ==
    CASE wt = 0 -> ReadVarint(b, i, 1).next
      [] wt = 1 -> IF i + 7 <= Len(b) THEN i + 8 ELSE 0
      [] wt = 2 -> LET l == ReadVarint(b, i, 1)
                   IN  IF l.next = 0 \/ l.next + l.val - 1 > Len(b) THEN 0
                       ELSE l.next + l.val
      [] wt = 3 -> ConsumeGroup(b, i, num)
      [] wt = 5 -> IF i + 3 <= Len(b) THEN i + 4 ELSE 0
      [] OTHER  -> 0

ConsumeGroup(b, i, num) ==
    LET tag == ReadVarint(b, i, 1)
        num2 == tag.val \div 8
        wt2 == tag.val % 8
    IN  IF tag.next = 0 \/ num2 < 1 THEN 0
        ELSE IF wt2 = 4 THEN (IF num2 = num THEN tag.next ELSE 0)
        ELSE LET n == ConsumeFieldValue(b, tag.next, num2, wt2)
             IN  IF n = 0 THEN 0 ELSE ConsumeGroup(b, n, num)

\* The fields of a message: [ok, fields], each field <<number, wire type,
\* value>> with the value of a varint or the bytes of a length-delimited
\* field (<<>> for the other wire types, which only unknown fields have).
RECURSIVE ParseFields(_, _, _)
ParseFields(b, i, acc) ==
    IF i > Len(b) THEN [ok |-> TRUE, fields |-> acc]
    ELSE LET tag == ReadVarint(b, i, 1)
             num == tag.val \div 8
             wt == tag.val % 8
             n == ConsumeFieldValue(b, tag.next, num, wt)
         IN  IF tag.next = 0 \/ num < 1 \/ wt = 4 \/ n = 0
             THEN [ok |-> FALSE, fields |-> <<>>]
             ELSE LET v == CASE wt = 0 -> ReadVarint(b, tag.next, 1).val
                             [] wt = 2 ->
                                  SubSeq(b, ReadVarint(b, tag.next, 1).next, n - 1)
                             [] OTHER -> <<>>
                  IN  ParseFields(b, n, Append(acc, <<num, wt, v>>))

\* the value of the last field (num, wt) of fs, or dflt
LastField(fs, num, wt, dflt) ==
    LET hits == {k \in 1..Len(fs) : fs[k][1] = num /\ fs[k][2] = wt}
    IN  IF hits = {} THEN dflt
        ELSE fs[CHOOSE k \in hits : \A j \in hits : j <= k][3]

\* valid UTF-8, for the byte strings of the model: bytes below 128
ValidUTF8(s) == \A k \in 1..Len(s) : s[k] < 128

\* proto.Unmarshal(b, &anypb.Any{}): type_url = 1 (string), value = 2 (bytes)
UnmarshalAny(b) ==
    LET p == ParseFields(b, 1, <<>>)
        url == LastField(p.fields, 1, 2, <<>>)
    IN  IF ~p.ok \/ \E k \in 1..Len(p.fields) :
                        p.fields[k][1] = 1 /\ p.fields[k][2] = 2
                        /\ ~ValidUTF8(p.fields[k][3])
        THEN [err |-> TRUE, msg |-> None]
        ELSE [err |-> FALSE,
              msg |-> [type_url |-> url,
                       value |-> LastField(p.fields, 2, 2, <<>>)]]

\* serialized Any{type_url: "a", value: "b"} and Any{type_url: "t"}
AnyAB == <<10, 1, 97, 18, 1, 98>>

AnyT == <<10, 1, 116>>

-----------------------------------------------------------------------------
(* Errors *)

\* An error value is one of
\*   NilErr                 the nil error interface
\*   PlainErr(m)            an error that is not *errors.Error, with text m
\*   WrapErr(op, e)         &errors.Error{Op: op, Err: e}
\*   TypedNilErr            (*errors.Error)(nil) held in an error interface
\*   StatusErr(c, m, ds)    a gRPC status error: code, message, details
NilErr == [kind |-> "nil"]

TypedNilErr == [kind |-> "typednil"]

PlainErr(m) == [kind |-> "plain", msg |-> m]

WrapErr(op, e) == [kind |-> "wrap", op |-> op, err |-> e]

StatusErr(c, m, ds) == [kind |-> "status", code |-> c, msg |-> m, details |-> ds]

\* the outcome of a call that panicked
Panic == [kind |-> "panic"]

\* codes.OK, codes.Internal
OK == U32(0)

Internal == U32(13)

\* Whether err.Error() panics: on the nil interface and on a nil *errors.Error.
ErrorPanics(err) == err.kind \in {"nil", "typednil"}

\* (*errors.Error).isZero
IsZero(e) == e.op = <<>> /\ e.err = NilErr

\* err.Error().  (*errors.Error).Error writes the Op, then the wrapped
\* error's text after ": " (after ":\n\t" when that is an *errors.Error too),
\* each separator only when something was written before it.
RECURSIVE ErrorString(_)
ErrorString(err) ==
    CASE err.kind = "plain" -> err.msg
      [] err.kind = "status" -> err.msg
      [] err.kind = "wrap" ->
            LET pad(sep) == IF err.op = <<>> THEN <<>> ELSE err.op \o sep
                text ==
                    CASE err.err.kind = "nil" -> err.op
                      [] err.err.kind = "wrap" ->
                            IF IsZero(err.err) THEN err.op
                            ELSE pad(S(<<":", "\n", "\t">>)) \o ErrorString(err.err)
                      [] OTHER -> pad(S(<<":", " ">>)) \o ErrorString(err.err)
            IN  IF text = <<>> THEN S(<<"n", "o", " ", "e", "r", "r", "o", "r">>)
                ELSE text
      [] OTHER -> <<>>

\* GetOriginalErr(err): [panic, msg].  The type assertion fails on the nil
\* interface, and err.Error() on it panics.
RECURSIVE GetOriginalErr(_)
GetOriginalErr(err) ==
    CASE err.kind = "wrap" -> GetOriginalErr(err.err)
      [] err.kind = "typednil" -> [panic |-> FALSE, msg |-> <<>>]
      [] err.kind = "nil" -> [panic |-> TRUE, msg |-> <<>>]
      [] OTHER -> [panic |-> FALSE, msg |-> ErrorString(err)]

\* status.ErrorProto(st): no error at all for the code OK
ErrorProto(st) ==
    IF st.code = OK THEN NilErr ELSE StatusErr(st.code, st.msg, st.details)

\* phpCode > 0 && phpCode < math.MaxUint32
CodeInRange(phpCode) == Less(U32(0), phpCode) /\ Less(phpCode, MaxUint32)

\* a mutant of Details: the first chunk that does not unmarshal ends the list
RECURSIVE DetailsUntilFailure(_, _, _)
DetailsUntilFailure(chunks, k, acc) ==
    IF k > Len(chunks) THEN acc
    ELSE LET a == UnmarshalAny(chunks[k])
         IN  IF a.err THEN acc
             ELSE DetailsUntilFailure(chunks, k + 1, Append(acc, a.msg))

\* the details of chunks[2:]: those that unmarshal as an Any, in order
RECURSIVE Details(_, _, _)
Details(chunks, k, acc) ==
    IF k > Len(chunks) THEN acc
    ELSE LET a == UnmarshalAny(chunks[k])
         IN  Details(chunks, k + 1, IF a.err THEN acc ELSE Append(acc, a.msg))

\* a mutant of OnParseFailure: the parse failure is ignored and the status is
\* built with the default code
OnParseFailureBuildsStatus(err, chunks) ==
    StatusErr(Internal, chunks[2], <<>>)

\* what wrapError returns when ParseUint fails on the first chunk
OnParseFailure(err, chunks) == err

\* a mutant of PlainMessage: the unwrapped message instead of err.Error()
PlainMessageUnwrapped(err, errMsg) == errMsg

\* the message of the status built for an error without the delimiter
PlainMessage(err, errMsg) == ErrorString(err)

\* wrapError(err): the error it returns, or Panic
wrapError(err) ==
    LET orig == GetOriginalErr(err)
        errMsg == orig.msg
    IN  IF orig.panic THEN Panic
        ELSE IF Contains(errMsg, delimiter)
        THEN LET chunks == Split(errMsg, delimiter)
                 conv == ParseUint(chunks[1])
                 code == IF CodeInRange(conv.val) THEN conv.val ELSE Internal
             IN  IF Len(chunks) < 2 THEN err
                 ELSE IF conv.err THEN OnParseFailure(err, chunks)
                 ELSE ErrorProto([code |-> code, msg |-> chunks[2],
                                  details |-> Details(chunks, 3, <<>>)])
        ELSE IF ErrorPanics(err) THEN Panic
        ELSE StatusErr(Internal, PlainMessage(err, errMsg), <<>>)

-----------------------------------------------------------------------------
(* base64.StdEncoding and the Status message *)

\* the character of a 6-bit value in the standard alphabet
B64Char(v) ==
    IF v < 26 THEN 65 + v
    ELSE IF v < 52 THEN 97 + (v - 26)
    ELSE IF v < 62 THEN 48 + (v - 52)
    ELSE IF v = 62 THEN 43 ELSE 47

\* the 6-bit value of a character, -1 for a character outside the alphabet
B64Val(c) ==
    IF c \in 65..90 THEN c - 65
    ELSE IF c \in 97..122 THEN c - 97 + 26
    ELSE IF c \in 48..57 THEN c - 48 + 52
    ELSE IF c = 43 THEN 62
    ELSE IF c = 47 THEN 63 ELSE -1

\* base64.StdEncoding.EncodeToString, as the worker applies it
RECURSIVE Base64Encode(_)
Base64Encode(b) ==
    IF Len(b) = 0 THEN <<>>
    ELSE IF Len(b) = 1
    THEN <<B64Char(b[1] \div 4), B64Char((b[1] % 4) * 16), 61, 61>>
    ELSE IF Len(b) = 2
    THEN <<B64Char(b[1] \div 4), B64Char((b[1] % 4) * 16 + b[2] \div 16),
           B64Char((b[2] % 16) * 4), 61>>
    ELSE <<B64Char(b[1] \div 4), B64Char((b[1] % 4) * 16 + b[2] \div 16),
           B64Char((b[2] % 16) * 4 + b[3] \div 64), B64Char(b[3] % 64)>>
         \o Base64Encode(SubSeq(b, 4, Len(b)))

\* one quantum of four characters: [err, bytes]; padding only in the last
DecodeQuantum(q, last) ==
    LET v == [i \in 1..4 |-> B64Val(q[i])]
    IN  IF v[1] < 0 \/ v[2] < 0 THEN [err |-> TRUE, bytes |-> <<>>]
        ELSE IF q[3] = 61 /\ q[4] = 61 /\ last
        THEN [err |-> FALSE, bytes |-> <<v[1] * 4 + v[2] \div 16>>]
        ELSE IF v[3] < 0 THEN [err |-> TRUE, bytes |-> <<>>]
        ELSE IF q[4] = 61 /\ last
        THEN [err |-> FALSE,
              bytes |-> <<v[1] * 4 + v[2] \div 16,
                          (v[2] % 16) * 16 + v[3] \div 4>>]
        ELSE IF v[4] < 0 THEN [err |-> TRUE, bytes |-> <<>>]
        ELSE [err |-> FALSE,
              bytes |-> <<v[1] * 4 + v[2] \div 16,
                          (v[2] % 16) * 16 + v[3] \div 4,
                          (v[3] % 4) * 64 + v[4]>>]

RECURSIVE DecodeQuanta(_)
DecodeQuanta(s) ==
    IF Len(s) = 0 THEN [err |-> FALSE, bytes |-> <<>>]
    ELSE IF Len(s) < 4 THEN [err |-> TRUE, bytes |-> <<>>]
    ELSE LET q == DecodeQuantum(SubSeq(s, 1, 4), Len(s) = 4)
             r == DecodeQuanta(SubSeq(s, 5, Len(s)))
         IN  IF q.err \/ r.err THEN [err |-> TRUE, bytes |-> <<>>]
             ELSE [err |-> FALSE, bytes |-> q.bytes \o r.bytes]

\* base64.StdEncoding.DecodeString: padded, line breaks skipped
Base64Decode(s) ==
    DecodeQuanta(SelectSeq(s, LAMBDA c : c \notin {10, 13}))

\* proto.Marshal of a Status{code, message} with a code below 128 and a
\* message shorter than 128 bytes, as the worker serializes it
MarshalStatus(code, msg) ==
    (IF code = 0 THEN <<>> ELSE <<8, code>>)
    \o (IF msg = <<>> THEN <<>> ELSE <<18, Len(msg)>> \o msg)

\* the uint32 of a decoded varint
ToU32(v) == <<(v \div LimbBase) % LimbBase, v % LimbBase>>

\* proto.Unmarshal(data, &spb.Status{}): code = 1 (int32), message = 2
\* (string), details = 3 (repeated Any)
UnmarshalStatus(b) ==
    LET p == ParseFields(b, 1, <<>>)
        isDetail(k) == p.fields[k][1] = 3 /\ p.fields[k][2] = 2
        ds == SelectSeq(p.fields, LAMBDA f : f[1] = 3 /\ f[2] = 2)
        bad ==
            \/ \E k \in 1..Len(p.fields) :
                  p.fields[k][1] = 2 /\ p.fields[k][2] = 2
                  /\ ~ValidUTF8(p.fields[k][3])
            \/ \E k \in 1..Len(ds) : UnmarshalAny(ds[k][3]).err
    IN  IF ~p.ok \/ bad THEN [err |-> TRUE, msg |-> None]
        ELSE [err |-> FALSE,
              msg |-> [code |-> ToU32(LastField(p.fields, 1, 0, 0)),
                       msg |-> LastField(p.fields, 2, 2, <<>>),
                       details |-> [k \in 1..Len(ds) |->
                                       UnmarshalAny(ds[k][3]).msg]]]

-----------------------------------------------------------------------------
(* JSON documents, byte slices and metadata *)

\* the value a JSON text parses to
JNull == [j |-> "null"]

JStr(s) == [j |-> "str", s |-> s]

JNum(n) == [j |-> "num", n |-> n]

JArr(items) == [j |-> "arr", items |-> items]

\* pairs: the members in the order of the text, duplicates included
JObj(pairs) == [j |-> "obj", pairs |-> pairs]

\* A []byte holding a context: nil, empty, a text that is not JSON, or the
\* JSON text of a document.
NilBytes == [form |-> "nil"]

EmptyBytes == [form |-> "empty"]

Malformed == [form |-> "malformed"]

JsonText(doc) == [form |-> "json", doc |-> doc]

\* a []byte that is not read as JSON: a message body
Raw(b) == [form |-> "raw", bytes |-> b]

\* len(b) == 0
IsEmpty(b) == b.form \in {"nil", "empty"}

\* a Go map with no entries (and the nil map, which reads the same)
EmptyMap == << >>

\* the map with one more entry
Put(m, k, v) == [x \in DOMAIN m \cup {k} |-> IF x = k THEN v ELSE m[x]]

\* json.Unmarshal(b, &m) for m of type map[string]string: [err, m].  A
\* member that is not a string is a type error; null leaves the zero value.
RECURSIVE StoreMembers(_, _, _)
StoreMembers(pairs, k, m) ==
    IF k > Len(pairs) THEN m
    ELSE StoreMembers(pairs, k + 1,
            Put(m, pairs[k][1],
                IF pairs[k][2].j = "str" THEN pairs[k][2].s ELSE <<>>))

UnmarshalStringMap(b) ==
    IF b.form # "json" THEN [err |-> TRUE, m |-> EmptyMap]
    ELSE CASE b.doc.j = "null" -> [err |-> FALSE, m |-> EmptyMap]
           [] b.doc.j = "obj" ->
                [err |-> \E k \in 1..Len(b.doc.pairs) :
                            b.doc.pairs[k][2].j \notin {"str", "null"},
                 m |-> StoreMembers(b.doc.pairs, 1, EmptyMap)]
           [] OTHER -> [err |-> TRUE, m |-> EmptyMap]

\* strings.ToLower on ASCII
ToLower(s) == [i \in 1..Len(s) |-> IF s[i] \in 65..90 THEN s[i] + 32 ELSE s[i]]

\* the orders in which a range over the keys K can visit them
Orders(K) ==
    {f \in [1..Cardinality(K) -> K] :
        \A i, j \in 1..Cardinality(K) : i # j => f[i] # f[j]}

\* metadata.New(m): each key lower-cased, the values of keys that fall
\* together appended in the order the map is ranged over, which Go leaves
\* open: the set of metadata it can build
MetadataNew(m) ==
    LET keys == {ToLower(k) : k \in DOMAIN m}
        from(key) == {k \in DOMAIN m : ToLower(k) = key}
        lists(key) == {[i \in 1..Cardinality(from(key)) |-> m[o[i]]] :
                          o \in Orders(from(key))}
    IN  {md \in [keys -> UNION {lists(key) : key \in keys}] :
            \A key \in keys : md[key] \in lists(key)}

\* md.Get(k)
Get(md, k) == IF ToLower(k) \in DOMAIN md THEN md[ToLower(k)] ELSE <<>>

\* md.Len()
MDLen(md) == Cardinality(DOMAIN md)

-----------------------------------------------------------------------------
(* The proxy: request context, response metadata *)

peerAddr == S(<<":", "p", "e", "e", "r", ".", "a", "d", "d", "r", "e", "s", "s">>)

peerAuthType ==
    S(<<":", "p", "e", "e", "r", ".", "a", "u", "t", "h", "-", "t", "y", "p", "e">>)

apiErr == S(<<"e", "r", "r", "o", "r">>)

\* frame.CodecJSON, and a codec tag that is not it
CodecJSON == "json"

\* p.name of the proxy
ProxyName == S(<<"p", "k", "g", ".", "G">>)

\* byte strings in the order encoding/json sorts map keys
LexLess(a, b) ==
    \E i \in 1..(Len(a) + 1) :
        /\ i <= Len(b)
        /\ \A j \in 1..(i - 1) : a[j] = b[j]
        /\ (i = Len(a) + 1 \/ a[i] < b[i])

RECURSIVE Sorted(_)
Sorted(K) ==
    IF K = {} THEN <<>>
    ELSE LET lo == CHOOSE k \in K : \A x \in K \ {k} : LexLess(k, x)
         IN  <<lo>> \o Sorted(K \ {lo})

\* the map makePayload builds: the incoming metadata, then the peer's
\* address and authentication type over it
ContextMap(r) ==
    LET fromMD == IF r.md.ok THEN r.md.m ELSE EmptyMap
        withAddr == IF r.peer.ok THEN Put(fromMD, peerAddr, <<r.peer.addr>>)
                    ELSE fromMD
    IN  IF r.peer.ok /\ r.peer.hasAuth
        THEN Put(withAddr, peerAuthType, <<r.peer.auth>>)
        ELSE withAddr

\* json.Marshal(rpcContext{Service, Method, Context}): the struct's fields
\* in order, the map's keys sorted, each value list an array of strings
MarshalRpcContext(service, method, ctxMD) ==
    LET keys == Sorted(DOMAIN ctxMD)
        arr(vs) == JArr([i \in 1..Len(vs) |-> JStr(vs[i])])
    IN  JObj(<< <<S(<<"s", "e", "r", "v", "i", "c", "e">>), JStr(service)>>,
                <<S(<<"m", "e", "t", "h", "o", "d">>), JStr(method)>>,
                <<S(<<"c", "o", "n", "t", "e", "x", "t">>),
                  JObj([i \in 1..Len(keys) |->
                          <<keys[i], arr(ctxMD[keys[i]])>>])>> >>)

\* errors of the libraries that reach invoke unwrapped
JsonError == PlainErr(S(<<"j", "s", "o", "n">>))

Base64Error == PlainErr(S(<<"b", "a", "s", "e", "6", "4">>))

ProtoError == PlainErr(S(<<"p", "r", "o", "t", "o">>))

\* the error of grpc.SetHeader on a stream whose header cannot be written
HeaderError == StatusErr(Internal, S(<<"h", "e", "a", "d", "e", "r">>), <<>>)

\* a mutant of EmbeddedError: the "error" key is not looked at
EmbeddedErrorIgnored(md) == [md |-> md, err |-> NilErr]

\* the part of responseMetadata that handles the "error" key of md
EmbeddedError(md) ==
    IF Len(Get(md, apiErr)) > 0
    THEN LET data == Base64Decode(Get(md, apiErr)[1])
             st == UnmarshalStatus(data.bytes)
         IN  IF data.err THEN [md |-> EmptyMap, err |-> Base64Error]
             ELSE IF st.err THEN [md |-> EmptyMap, err |-> ProtoError]
             ELSE [md |-> md, err |-> ErrorProto(st.msg)]
    ELSE [md |-> md, err |-> NilErr]

\* a mutant of HasEntries: a map of one entry counts as empty
HasEntriesMany(m) == Cardinality(DOMAIN m) > 1

\* len(rpcMetadata) > 0
HasEntries(m) == Cardinality(DOMAIN m) > 0

\* responseMetadata(resp): the (md, err) pairs it can return; more than one
\* only when metadata.New can order the values of a key in several ways
responseMetadata(resp) ==
    IF resp = None \/ IsEmpty(resp.Context)
    THEN {[md |-> EmptyMap, err |-> NilErr]}
    ELSE LET u == UnmarshalStringMap(resp.Context)
         IN  IF u.err THEN {[md |-> EmptyMap, err |-> JsonError]}
             ELSE IF HasEntries(u.m)
             THEN {EmbeddedError(md) : md \in MetadataNew(u.m)}
             ELSE {[md |-> EmptyMap, err |-> NilErr]}

\* a mutant of interceptor: the handler's error is logged and not returned
interceptorDropsError(r) == [body |-> r.body, err |-> NilErr]

\* Plugin.interceptor around a handler that returned r
interceptor(r) ==
    IF r.err # NilErr THEN [body |-> None, err |-> r.err] ELSE r

-----------------------------------------------------------------------------
(* The proxy: calls through methodHandler and invoke, the Payload pool, the
   shared lock *)

NCalls == 2

Calls == 1..NCalls

\* the Payload pldPool.New builds
NewPayload == [Codec |-> CodecJSON, Context |-> EmptyBytes, Body |-> Raw(<<>>)]

\* the error json.Marshal returns when it fails
MarshalError == PlainErr(S(<<"m", "a", "r", "s", "h", "a", "l">>))

\* a mutant of FreshId: pldPool.New hands out the object it built last
FreshIdReused == IF Len(objs) = 0 THEN Len(objs) + 1 ELSE Len(objs)

\* the object pldPool.New builds when the pool has none to hand out
FreshId == Len(objs) + 1

\* sync.Pool.Get hands out an object and keeps it no longer
Take(pool, id) == pool \ {id}

\* a mutant of CanRLock: invoke does not wait for the lock
CanRLockAlways == TRUE

\* mu.RLock() returns only while no reset/destroy holds or awaits mu
CanRLock == writer = "idle"

\* what invoke returns after pool.Exec failed with err
OnExecError(err) == [body |-> None, err |-> wrapError(err)]

\* a mutant of OnSuccess: invoke returns an empty body
OnSuccessEmpty(resp) == [body |-> Raw(<<>>), err |-> NilErr]

\* what invoke returns when nothing failed
OnSuccess(resp) == [body |-> resp.Body, err |-> NilErr]

\* a mutant of Cleared: putPld leaves the context in the object
ClearedBodyOnly(p) == [p EXCEPT !.Body = NilBytes]

\* what putPld leaves in the object it puts back
Cleared(p) == [p EXCEPT !.Body = NilBytes, !.Context = NilBytes]

ProxyIdle ==
    /\ pc = [c \in Calls |-> "idle"]
    /\ req = [c \in Calls |-> None]
    /\ via = [c \in Calls |-> None]
    /\ inv = [c \in Calls |-> None]
    /\ pld = [c \in Calls |-> 0]
    /\ seen = [c \in Calls |-> None]
    /\ out = [c \in Calls |-> None]
    /\ meta = [c \in Calls |-> None]
    /\ ret = [c \in Calls |-> None]
    /\ result = [c \in Calls |-> None]
    /\ nexec = [c \in Calls |-> 0]
    /\ nget = [c \in Calls |-> 0]
    /\ nput = [c \in Calls |-> 0]
    /\ objs = <<>>
    /\ pooled = {}
    /\ readers = {}
    /\ writer = "idle"

Goto(c, label) == pc' = [pc EXCEPT ![c] = label]

\* a mutant of FullMethod: the call-info names the method alone
FullMethodBare(name, method) == method

\* fmt.Sprintf("/%s/%s", p.name, method)
FullMethod(name, method) == S(<<"/">>) \o name \o S(<<"/">>) \o method

\* methodHandler's closure: decode the body, then invoke, directly or
\* through the interceptor, whose handler closure invokes with the method
\* of this handler and the request the interceptor passes on
Call(c, r) ==
    /\ pc[c] = "idle"
    /\ req' = [req EXCEPT ![c] = r]
    /\ IF r.dec # NilErr
       THEN /\ result' = [result EXCEPT
                            ![c] = [body |-> None, err |-> wrapError(r.dec)]]
            /\ Goto(c, "done")
            /\ UNCHANGED <<via, inv>>
       ELSE /\ via' = [via EXCEPT ![c] =
                        IF r.interceptor
                        THEN [req |-> r.body,
                              info |-> FullMethod(ProxyName, r.method),
                              handler |-> r.method]
                        ELSE None]
            /\ inv' = [inv EXCEPT ![c] = [method |-> r.method, body |-> r.body]]
            /\ Goto(c, "getPld")
            /\ UNCHANGED result
    /\ UNCHANGED <<pld, seen, out, meta, ret, nexec, nget, nput,
                   sharedVars, wrapVars, serverVars>>

\* invoke: pld := p.getPld(), an object of the pool or a new one, with the
\* codec set
GetPld(c) ==
    /\ pc[c] = "getPld"
    /\ \E id \in pooled \cup {FreshId} :
        /\ objs' = IF id > Len(objs)
                   THEN Append(objs, [NewPayload EXCEPT !.Codec = CodecJSON])
                   ELSE [objs EXCEPT ![id].Codec = CodecJSON]
        /\ pooled' = Take(pooled, id)
        /\ pld' = [pld EXCEPT ![c] = id]
    /\ nget' = [nget EXCEPT ![c] = @ + 1]
    /\ Goto(c, "makePayload")
    /\ UNCHANGED <<req, via, inv, seen, out, meta, ret, result, nexec, nput,
                   readers, writer, wrapVars, serverVars>>

\* invoke: p.makePayload(ctx, method, in, pld); json.Marshal succeeds or
\* returns an error, and then invoke returns it
MakePayload(c) ==
    /\ pc[c] = "makePayload"
    /\ \E fails \in BOOLEAN :
        IF fails
        THEN /\ ret' = [ret EXCEPT ![c] = [body |-> None, err |-> MarshalError]]
             /\ Goto(c, "putPld")
             /\ UNCHANGED objs
        ELSE /\ objs' = [objs EXCEPT
                    ![pld[c]].Body = inv[c].body,
                    ![pld[c]].Context =
                        JsonText(MarshalRpcContext(ProxyName, inv[c].method,
                                                   ContextMap(req[c])))]
             /\ Goto(c, "rlock")
             /\ UNCHANGED ret
    /\ UNCHANGED <<req, via, inv, pld, seen, out, meta, result, nexec, nget, nput,
                   pooled, readers, writer, wrapVars, serverVars>>

\* invoke: p.mu.RLock()
RLock(c) ==
    /\ pc[c] = "rlock"
    /\ CanRLock
    /\ readers' = readers \cup {c}
    /\ Goto(c, "exec")
    /\ UNCHANGED <<req, via, inv, pld, seen, out, meta, ret, result, nexec, nget, nput,
                   objs, pooled, writer, wrapVars, serverVars>>

\* invoke: resp, err := p.grpcPool.Exec(ctx, pld); the pool reads the
\* payload and answers with o
Exec(c, o) ==
    /\ pc[c] = "exec"
    /\ LET read == [body |-> objs[pld[c]].Body,
                    context |-> objs[pld[c]].Context,
                    codec |-> objs[pld[c]].Codec]
       IN  /\ seen' = [seen EXCEPT ![c] = read]
           /\ out' = [out EXCEPT ![c] =
                        IF o.kind = "err" THEN [resp |-> None, err |-> o.err]
                        ELSE [resp |-> [Body |-> IF o.echo THEN read.body
                                                 ELSE o.body,
                                        Context |-> o.ctx],
                              err |-> NilErr]]
    /\ nexec' = [nexec EXCEPT ![c] = @ + 1]
    /\ Goto(c, "runlock")
    /\ UNCHANGED <<req, via, inv, pld, meta, ret, result, nget, nput, sharedVars,
                   wrapVars, serverVars>>

\* a mutant of RUnlock: invoke goes on without releasing the lock
RUnlockSkipped(c) ==
    /\ pc[c] = "runlock"
    /\ Goto(c, "post")
    /\ UNCHANGED <<req, via, inv, pld, seen, out, meta, ret, result, nexec,
                   nget, nput, sharedVars, wrapVars, serverVars>>

\* invoke: p.mu.RUnlock()
RUnlock(c) ==
    /\ pc[c] = "runlock"
    /\ readers' = readers \ {c}
    /\ Goto(c, "post")
    /\ UNCHANGED <<req, via, inv, pld, seen, out, meta, ret, result, nexec, nget, nput,
                   objs, pooled, writer, wrapVars, serverVars>>

\* a mutant of Post: after a pool failure invoke calls the pool once more
PostRetries(c) ==
    /\ pc[c] = "post"
    /\ IF out[c].err # NilErr /\ nexec[c] < 2
       THEN /\ Goto(c, "rlock")
            /\ UNCHANGED <<meta, ret>>
       ELSE /\ Goto(c, "putPld")
            /\ IF out[c].err # NilErr
               THEN /\ ret' = [ret EXCEPT ![c] = OnExecError(out[c].err)]
                    /\ UNCHANGED meta
               ELSE \E m \in responseMetadata(out[c].resp) :
                    /\ meta' = [meta EXCEPT ![c] = m]
                    /\ IF m.err # NilErr
                       THEN ret' = [ret EXCEPT
                                      ![c] = [body |-> None, err |-> m.err]]
                       ELSE \E headerFails \in
                                (IF MDLen(m.md) = 0 THEN {FALSE} ELSE BOOLEAN) :
                            ret' = [ret EXCEPT ![c] =
                                IF headerFails
                                THEN [body |-> None, err |-> HeaderError]
                                ELSE OnSuccess(out[c].resp)]
    /\ UNCHANGED <<req, via, inv, pld, seen, out, result, nexec, nget, nput,
                   sharedVars, wrapVars, serverVars>>

\* invoke after the pool call: translate its error, or read the response
\* metadata, set the header and return the body
Post(c) ==
    /\ pc[c] = "post"
    /\ IF out[c].err # NilErr
       THEN /\ ret' = [ret EXCEPT ![c] = OnExecError(out[c].err)]
            /\ UNCHANGED meta
       ELSE \E m \in responseMetadata(out[c].resp) :
            /\ meta' = [meta EXCEPT ![c] = m]
            /\ IF m.err # NilErr
               THEN ret' = [ret EXCEPT ![c] = [body |-> None, err |-> m.err]]
               ELSE \E headerFails \in
                        (IF MDLen(m.md) = 0 THEN {FALSE} ELSE BOOLEAN) :
                    ret' = [ret EXCEPT ![c] =
                        IF headerFails
                        THEN [body |-> None, err |-> HeaderError]
                        ELSE OnSuccess(out[c].resp)]
    /\ Goto(c, "putPld")
    /\ UNCHANGED <<req, via, inv, pld, seen, out, result, nexec, nget, nput,
                   sharedVars, wrapVars, serverVars>>

\* invoke returns: the deferred p.putPld(pld) runs, then the handler
\* returns what invoke returned, through the interceptor when there is one
PutPld(c) ==
    /\ pc[c] = "putPld"
    /\ objs' = [objs EXCEPT ![pld[c]] = Cleared(@)]
    /\ pooled' = pooled \cup {pld[c]}
    /\ pld' = [pld EXCEPT ![c] = 0]
    /\ nput' = [nput EXCEPT ![c] = @ + 1]
    /\ result' = [result EXCEPT
                    ![c] = IF req[c].interceptor THEN interceptor(ret[c])
                           ELSE ret[c]]
    /\ Goto(c, "done")
    /\ UNCHANGED <<req, via, inv, seen, out, meta, ret, nexec, nget, readers, writer,
                   wrapVars, serverVars>>

\* reset/destroy of the pool: mu.Lock() is called and keeps new readers out
WriteLock ==
    /\ writer = "idle"
    /\ writer' = "waiting"
    /\ UNCHANGED <<callVars, objs, pooled, readers, wrapVars, serverVars>>

\* mu.Lock() returns once the in-flight readers have left
WriteEnter ==
    /\ writer = "waiting"
    /\ readers = {}
    /\ writer' = "active"
    /\ UNCHANGED <<callVars, objs, pooled, readers, wrapVars, serverVars>>

\* the pool has been reset or destroyed: mu.Unlock()
WriteUnlock ==
    /\ writer = "active"
    /\ writer' = "idle"
    /\ UNCHANGED <<callVars, objs, pooled, readers, wrapVars, serverVars>>

-----------------------------------------------------------------------------
(* Concurrent calls on one proxy, with pool resets: Spec *)

Hello == S(<<"H", "e", "l", "l", "o">>)

Bye == S(<<"B", "y", "e">>)

Ping == S(<<"p", "i", "n", "g">>)

NoMD == [ok |-> FALSE]

NoPeer == [ok |-> FALSE]

\* a request the transport hands to the handler
Request(method, body, md, peer, icpt) ==
    [dec |-> NilErr, method |-> method, body |-> Raw(body), md |-> md,
     peer |-> peer, interceptor |-> icpt]

\* a request whose body the transport could not decode
Undecodable(err, icpt) ==
    [dec |-> err, method |-> Hello, body |-> NilBytes, md |-> NoMD,
     peer |-> NoPeer, interceptor |-> icpt]

\* what the pool answers: an error, or a response that echoes the body it
\* read or carries a body of its own, with a context
Fails(err) == [kind |-> "err", err |-> err]

Echoes(ctx) == [kind |-> "resp", echo |-> TRUE, body |-> NilBytes, ctx |-> ctx]

Answers(body, ctx) ==
    [kind |-> "resp", echo |-> FALSE, body |-> Raw(body), ctx |-> ctx]

\* the JSON text of an object with the given members
Object(pairs) == JsonText(JObj(pairs))

\* the text under "error" for a Status{code, message}
StatusText(code, msg) == Base64Encode(MarshalStatus(code, msg))

BadArg == S(<<"b", "a", "d">>)

KeyK == S(<<"k">>)

ValV == S(<<"v">>)

Boom == S(<<"b", "o", "o", "m">>)

OpExec == S(<<"o", "p">>)

Requests ==
    { Request(Hello, Ping, NoMD, NoPeer, TRUE),
      Request(Bye, <<>>, [ok |-> TRUE, m |-> Put(EmptyMap, KeyK, <<ValV>>)],
              NoPeer, FALSE) }

Outcomes ==
    { Fails(WrapErr(OpExec, PlainErr(Boom))),
      Echoes(EmptyBytes),
      Answers(ValV, Object(<< <<KeyK, JStr(ValV)>> >>)),
      Echoes(Object(<< <<apiErr, JStr(StatusText(3, BadArg))>> >>)) }

Init == ProxyIdle /\ WrapIdle /\ ServerIdle

Next ==
    \/ \E c \in Calls, r \in Requests : Call(c, r)
    \/ \E c \in Calls : GetPld(c)
    \/ \E c \in Calls : MakePayload(c)
    \/ \E c \in Calls : RLock(c)
    \/ \E c \in Calls, o \in Outcomes : Exec(c, o)
    \/ \E c \in Calls : RUnlock(c)
    \/ \E c \in Calls : Post(c)
    \/ \E c \in Calls : PutPld(c)
    \/ WriteLock
    \/ WriteEnter
    \/ WriteUnlock

Spec == Init /\ [][Next]_vars

-----------------------------------------------------------------------------
(* One call with every kind of request and of pool answer: SpecCall *)

Addr == S(<<"1", ".", "2", ":", "8", "0">>)

Tls == S(<<"t", "l", "s">>)

Spoof == S(<<"s", "p", "o", "o", "f">>)

ValW == S(<<"w">>)

KeyUpperK == S(<<"K">>)

Metadatas ==
    { NoMD,
      [ok |-> TRUE, m |-> Put(EmptyMap, KeyK, <<ValV, ValW>>)],
      [ok |-> TRUE,
       m |-> Put(Put(EmptyMap, KeyK, <<ValV>>), peerAddr, <<Spoof>>)],
      [ok |-> TRUE,
       m |-> Put(Put(EmptyMap, peerAuthType, <<Spoof>>), peerAddr, <<Spoof>>)] }

Peers ==
    { NoPeer,
      [ok |-> TRUE, addr |-> Addr, hasAuth |-> FALSE, auth |-> <<>>],
      [ok |-> TRUE, addr |-> Addr, hasAuth |-> TRUE, auth |-> Tls] }

AllRequests ==
    { Request(m, b, md, pr, i) :
        m \in {Hello, Bye}, b \in {Ping, <<>>, ValV}, md \in Metadatas,
        pr \in Peers, i \in BOOLEAN }
    \cup { Undecodable(PlainErr(BadArg), i) : i \in BOOLEAN }

\* the messages a worker's failure can carry
WorkerMsgs ==
    { Boom,
      Join(<<S(<<"5">>), S(<<"n", "f">>)>>, delimiter),
      Join(<<S(<<"5">>), S(<<"n", "f">>), AnyAB>>, delimiter),
      Join(<<S(<<"x">>), S(<<"n", "f">>)>>, delimiter),
      Join(<<S(<<"0">>), S(<<"n", "f">>)>>, delimiter),
      Join(<<S(<<"4", "2", "9", "4", "9", "6", "7", "2", "9", "5">>), <<>>>>,
           delimiter) }

PoolErrors ==
    { PlainErr(m) : m \in WorkerMsgs }
    \cup { WrapErr(OpExec, PlainErr(m)) : m \in WorkerMsgs }
    \cup { WrapErr(<<>>, WrapErr(OpExec, PlainErr(m))) : m \in WorkerMsgs }
    \cup { WrapErr(OpExec, NilErr) }

\* the statuses a worker puts under "error"
WorkerStatuses ==
    { <<0, <<>>>>, <<0, BadArg>>, <<3, BadArg>>, <<3, <<>>>>, <<13, Boom>>,
      <<16, ValV>>, <<99, BadArg>> }

ErrorContexts ==
    { Object(<< <<apiErr, JStr(StatusText(s[1], s[2]))>> >>) :
        s \in WorkerStatuses }
    \cup { Object(<< <<apiErr, JArr(<<JStr(StatusText(s[1], s[2]))>>)>> >>) :
        s \in {<<3, BadArg>>, <<0, <<>>>>} }
    \cup { Object(<< <<apiErr, JStr(StatusText(3, BadArg))>>,
                     <<KeyK, JStr(ValV)>> >>),
           Object(<< <<S(<<"E", "r", "r", "o", "r">>),
                       JStr(StatusText(3, BadArg))>> >>),
           Object(<< <<apiErr, JStr(S(<<"!", "!", "!", "!">>))>> >>),
           Object(<< <<apiErr, JStr(S(<<"Y", "Q">>))>> >>),
           Object(<< <<apiErr, JStr(Base64Encode(S(<<"x">>)))>> >>),
           Object(<< <<apiErr, JNull>> >>) }

PlainContexts ==
    { NilBytes, EmptyBytes, Malformed, JsonText(JNull), JsonText(JArr(<<>>)),
      JsonText(JStr(ValV)), Object(<<>>),
      Object(<< <<KeyK, JStr(ValV)>> >>),
      Object(<< <<KeyK, JStr(ValV)>>, <<ValW, JStr(<<>>)>> >>),
      Object(<< <<KeyUpperK, JStr(ValV)>> >>),
      Object(<< <<KeyUpperK, JStr(ValV)>>, <<KeyK, JStr(ValW)>> >>),
      Object(<< <<KeyK, JStr(ValV)>>, <<KeyK, JStr(ValW)>> >>),
      Object(<< <<KeyK, JArr(<<JStr(ValV)>>)>> >>),
      Object(<< <<KeyK, JArr(<<JStr(ValV), JStr(ValW)>>)>>,
                <<ValW, JArr(<<>>)>> >>),
      Object(<< <<KeyK, JNull>> >>),
      Object(<< <<KeyK, JNum(1)>> >>) }

AllOutcomes ==
    { Fails(e) : e \in PoolErrors }
    \cup { Echoes(ctx) : ctx \in PlainContexts \cup ErrorContexts }
    \cup { Answers(b, ctx) :
            b \in {ValV, <<>>}, ctx \in PlainContexts \cup ErrorContexts }

NextCall ==
    \/ \E r \in AllRequests : Call(1, r)
    \/ GetPld(1)
    \/ MakePayload(1)
    \/ RLock(1)
    \/ \E o \in AllOutcomes : Exec(1, o)
    \/ RUnlock(1)
    \/ Post(1)
    \/ PutPld(1)

SpecCall == Init /\ [][NextCall]_vars

-----------------------------------------------------------------------------
(* Error translation on its own: wrapError applied to one error *)

MaxWrap == 2

Ops == {<<>>, S(<<"o", "p">>)}

CodeSegs ==
    { S(<<"0">>), S(<<"1">>), S(<<"5">>), S(<<"1", "3">>), S(<<"1", "7">>),
      S(<<"0", "0", "5">>), S(<<"9", "9", "9">>),
      S(<<"4", "2", "9", "4", "9", "6", "7", "2", "9", "4">>),
      S(<<"4", "2", "9", "4", "9", "6", "7", "2", "9", "5">>),
      S(<<"4", "2", "9", "4", "9", "6", "7", "2", "9", "6">>),
      S(<<"9", "9", "9", "9", "9", "9", "9", "9", "9", "9", "9">>),
      <<>>, S(<<"x">>), S(<<"-", "1">>), S(<<"+", "5">>), S(<<"5", "x">>),
      S(<<" ", "5">>) }

StatusMsgs == { S(<<"n", "f">>), <<>>, S(<<"a", ":", "b">>) }

DetailLists ==
    { <<>>, <<AnyAB>>, <<S(<<"b", "a", "d">>)>>,
      <<AnyAB, S(<<"x">>), AnyT>>, <<<<>>>> }

PlainMsgs ==
    { S(<<"b", "o", "o", "m">>), <<>>, S(<<"5", "|", ":">>),
      S(<<"a", "|", "b">>) }

DelimitedMsgs ==
    { Join(<<c, m>> \o ds, delimiter) :
        c \in CodeSegs, m \in StatusMsgs, ds \in DetailLists }

\* chains of at most d wrappers around a plain error or around no cause
RECURSIVE Chains(_)
Chains(d) ==
    IF d = 0 THEN {PlainErr(m) : m \in DelimitedMsgs \cup PlainMsgs}
    ELSE LET prev == Chains(d - 1)
         IN  prev \cup {WrapErr(op, e) : op \in Ops, e \in prev \cup {NilErr}}

ErrInputs == Chains(MaxWrap)

InitWrap ==
    /\ ProxyIdle /\ ServerIdle
    /\ werr \in ErrInputs /\ wres = None /\ wpc = "in"

ApplyWrapError ==
    /\ wpc = "in"
    /\ wres' = wrapError(werr)
    /\ wpc' = "out"
    /\ UNCHANGED <<werr, callVars, sharedVars, serverVars>>

NextWrap == ApplyWrapError

SpecWrap == InitWrap /\ [][NextWrap]_vars

-----------------------------------------------------------------------------
(* Server assembly: NewProxy, RegisterMethod, ServiceDesc, serverOptions and
   createGRPCserver: SpecServer *)

\* p.gPool and p.mu of the plugin
gPool == "p.gPool"

mu == "p.mu"

\* a mutant of NewProxy: every proxy makes a lock of its own
NewProxyOwnLock(name, metadata, grpcPool, lock) ==
    [mu |-> name, grpcPool |-> grpcPool, name |-> name, metadata |-> metadata,
     methods |-> <<>>, pldPool |-> {}]

\* NewProxy(name, metadata, grpcPool, mu)
NewProxy(name, metadata, grpcPool, lock) ==
    [mu |-> lock, grpcPool |-> grpcPool, name |-> name, metadata |-> metadata,
     methods |-> <<>>, pldPool |-> {}]

\* p.RegisterMethod(method)
RegisterMethod(p, method) == [p EXCEPT !.methods = Append(@, method)]

\* p.methodHandler(method): the closure, which holds p and method
methodHandler(p, method) == [name |-> p.name, method |-> method]

\* a mutant of ServiceDesc: every entry gets the handler of the first method
ServiceDescFirstHandler(p) ==
    [ServiceName |-> p.name, Metadata |-> p.metadata,
     Methods |-> [k \in 1..Len(p.methods) |->
                    [MethodName |-> p.methods[k],
                     Handler |-> methodHandler(p, p.methods[1])]],
     Streams |-> <<>>]

\* p.ServiceDesc()
ServiceDesc(p) ==
    [ServiceName |-> p.name, Metadata |-> p.metadata,
     Methods |-> [k \in 1..Len(p.methods) |->
                    [MethodName |-> p.methods[k],
                     Handler |-> methodHandler(p, p.methods[k])]],
     Streams |-> <<>>]

\* the context a handler of a descriptor sends to the pool for a call without
\* metadata and peer: invoke with the closure's proxy name and method
HandlerContext(h) == MarshalRpcContext(h.name, h.method, EmptyMap)

\* errors.Op of createGRPCserver, and the errors of its collaborators
OpCreate == S(<<"c", "r", "e", "a", "t", "e">>)

TLSError == PlainErr(S(<<"t", "l", "s">>))

ParseError == PlainErr(S(<<"p", "a", "r", "s", "e">>))

\* the value given to keepalive.ServerParameters.MaxConnectionAgeGrace
GraceOption(cfg) == cfg.MaxConnectionAge

\* serverOptions(): [opts, err]; loading the TLS material fails or not
serverOptions(cfg, tlsFails) ==
    IF cfg.TLS # "off" /\ tlsFails THEN [opts |-> <<>>, err |-> TLSError]
    ELSE [opts |->
            (IF cfg.TLS = "off" THEN <<>>
             ELSE <<[opt |-> "Creds", clientCAs |-> cfg.TLS = "rootca"]>>)
            \o << [opt |-> "MaxSendMsgSize", v |-> cfg.MaxSendMsgSize],
                  [opt |-> "MaxRecvMsgSize", v |-> cfg.MaxRecvMsgSize],
                  [opt |-> "KeepaliveParams",
                   MaxConnectionIdle |-> cfg.MaxConnectionIdle,
                   MaxConnectionAge |-> cfg.MaxConnectionAge,
                   MaxConnectionAgeGrace |-> GraceOption(cfg),
                   Time |-> cfg.PingTime,
                   Timeout |-> cfg.Timeout],
                  [opt |-> "MaxConcurrentStreams",
                   v |-> U32(cfg.MaxConcurrentStreams)] >>
            \o cfg.opts
            \o <<[opt |-> "UnaryInterceptor"]>>,
          err |-> NilErr]

\* fmt.Sprintf("%s.%s", service.Package, service.Name)
ServiceName(service) == service.Package \o S(<<".">>) \o service.Name

\* the services parser.File can return
Pkg == S(<<"p", "k", "g">>)

SvcG == [Package |-> Pkg, Name |-> S(<<"G">>), Methods |-> <<Hello, Bye>>]

SvcH == [Package |-> Pkg, Name |-> S(<<"H">>), Methods |-> <<Hello>>]

SvcD == [Package |-> Pkg, Name |-> S(<<"D">>), Methods |-> <<Bye, Hello, Bye>>]

\* a service without methods
SvcE == [Package |-> Pkg, Name |-> S(<<"E">>), Methods |-> <<>>]

ParseResults ==
    { [err |-> ParseError, services |-> <<>>],
      [err |-> NilErr, services |-> <<>>],
      [err |-> NilErr, services |-> <<SvcG>>],
      [err |-> NilErr, services |-> <<SvcH, SvcG>>],
      [err |-> NilErr, services |-> <<SvcD, SvcE>>] }

\* the proto paths of a configuration; the empty path is skipped
Paths == {S(<<"a">>), S(<<"b">>)}

MaxProto == 2

RECURSIVE SeqsUpTo(_, _)
SeqsUpTo(X, n) ==
    IF n = 0 THEN {<<>>}
    ELSE SeqsUpTo(X, n - 1)
         \cup {Append(s, x) : s \in {q \in SeqsUpTo(X, n - 1) : Len(q) = n - 1},
                              x \in X}

\* the tuning values of a configuration
Tuning(send, recv, idle, age, grace, ping, timeout, streams) ==
    [MaxSendMsgSize |-> send, MaxRecvMsgSize |-> recv,
     MaxConnectionIdle |-> idle, MaxConnectionAge |-> age,
     MaxConnectionAgeGrace |-> grace, PingTime |-> ping, Timeout |-> timeout,
     MaxConcurrentStreams |-> streams]

Tunings ==
    { Tuning(1, 2, 3, 4, 5, 6, 7, 8), Tuning(5, 5, 5, 5, 5, 5, 5, 5),
      Tuning(50, 50, 0, 7, 7, 0, 20, 10) }

Configs ==
    { [Proto |-> protos, TLS |-> tls, opts |-> <<>>] @@ tuning :
        protos \in SeqsUpTo(Paths \cup {<<>>}, MaxProto),
        tls \in {"off", "pair", "rootca"},
        tuning \in Tunings }


InitServer ==
    /\ ProxyIdle /\ WrapIdle
    /\ config \in Configs
    /\ files \in [Paths -> ParseResults]
    /\ spc = "options" /\ opts = None /\ fi = 0
    /\ svcs = <<>> /\ px = None /\ proxyList = <<>> /\ registered = <<>>
    /\ serr = None

\* createGRPCserver: opts, err := p.serverOptions(), then grpc.NewServer
ServerOptions ==
    /\ spc = "options"
    /\ \E tlsFails \in (IF config.TLS = "off" THEN {FALSE} ELSE BOOLEAN) :
        LET r == serverOptions(config, tlsFails)
        IN  IF r.err # NilErr
            THEN /\ serr' = WrapErr(OpCreate, r.err)
                 /\ spc' = "failed"
                 /\ UNCHANGED <<opts, fi>>
            ELSE /\ opts' = r.opts
                 /\ spc' = "files"
                 /\ fi' = 1
                 /\ UNCHANGED serr
    /\ UNCHANGED <<config, files, svcs, px, proxyList, registered,
                   callVars, sharedVars, wrapVars>>

\* createGRPCserver: the head of the loop over p.config.Proto; an empty path
\* is skipped, a path that does not parse ends the assembly
NextFile ==
    /\ spc = "files" /\ svcs = <<>> /\ px = None
    /\ IF fi > Len(config.Proto)
       THEN spc' = "done" /\ UNCHANGED <<fi, svcs, serr>>
       ELSE IF config.Proto[fi] = <<>>
       THEN fi' = fi + 1 /\ UNCHANGED <<spc, svcs, serr>>
       ELSE LET r == files[config.Proto[fi]]
            IN  IF r.err # NilErr
                THEN serr' = r.err /\ spc' = "failed" /\ UNCHANGED <<fi, svcs>>
                ELSE svcs' = r.services /\ fi' = fi + 1
                     /\ UNCHANGED <<spc, serr>>
    /\ UNCHANGED <<config, files, opts, px, proxyList, registered,
                   callVars, sharedVars, wrapVars>>

\* createGRPCserver: px := proxy.NewProxy(name, p.config.Proto[i], p.gPool,
\* p.mu) for the next service of the file
MakeProxy ==
    /\ spc = "files" /\ svcs # <<>> /\ px = None
    /\ px' = NewProxy(ServiceName(Head(svcs)), config.Proto[fi - 1], gPool, mu)
    /\ UNCHANGED <<config, files, spc, opts, fi, svcs, proxyList, registered,
                   serr, callVars, sharedVars, wrapVars>>

\* createGRPCserver: px.RegisterMethod(m.Name) for the next method
AddMethod ==
    /\ spc = "files" /\ px # None
    /\ Len(px.methods) < Len(Head(svcs).Methods)
    /\ px' = RegisterMethod(px, Head(svcs).Methods[Len(px.methods) + 1])
    /\ UNCHANGED <<config, files, spc, opts, fi, svcs, proxyList, registered,
                   serr, callVars, sharedVars, wrapVars>>

\* createGRPCserver: server.RegisterService(px.ServiceDesc(), px), which
\* ends the process when the service name is registered already, and
\* p.proxyList = append(p.proxyList, px)
RegisterService ==
    /\ spc = "files" /\ px # None
    /\ Len(px.methods) = Len(Head(svcs).Methods)
    /\ IF \E k \in 1..Len(registered) :
             registered[k].desc.ServiceName = px.name
       THEN /\ spc' = "fatal"
            /\ UNCHANGED <<svcs, px, proxyList, registered>>
       ELSE /\ registered' =
                 Append(registered, [desc |-> ServiceDesc(px), impl |-> px])
            /\ proxyList' = Append(proxyList, px)
            /\ px' = None
            /\ svcs' = Tail(svcs)
            /\ UNCHANGED spc
    /\ UNCHANGED <<config, files, opts, fi, serr, callVars, sharedVars,
                   wrapVars>>

NextServer ==
    \/ ServerOptions
    \/ NextFile
    \/ MakeProxy
    \/ AddMethod
    \/ RegisterService

SpecServer == InitServer /\ [][NextServer]_vars

-----------------------------------------------------------------------------
(* Properties of the calls (Spec, SpecCall) *)

\* the handler of call c has returned, and it had called invoke
Invoked(c) == pc[c] = "done" /\ req[c].dec = NilErr

\* pool.Exec of call c returned a response and no error
ExecOK(c) == out[c] # None /\ out[c].err = NilErr

\* the members of the JSON object a context holds (none when it is no object)
Members(ctx) ==
    IF ctx.form = "json" /\ ctx.doc.j = "obj" THEN ctx.doc.pairs ELSE <<>>

IsObject(ctx) == ctx.form = "json" /\ ctx.doc.j = "obj"

\* the object has a member with this very key
HasKey(ctx, key) == \E i \in 1..Len(Members(ctx)) : Members(ctx)[i][1] = key

\* all members are strings / lists of strings
AllStrings(ctx) ==
    \A i \in 1..Len(Members(ctx)) : Members(ctx)[i][2].j = "str"

AllLists(ctx) ==
    \A i \in 1..Len(Members(ctx)) :
        /\ Members(ctx)[i][2].j = "arr"
        /\ \A k \in 1..Len(Members(ctx)[i][2].items) :
              Members(ctx)[i][2].items[k].j = "str"

\* no two members have the same key
DistinctKeys(ctx) ==
    \A i, k \in 1..Len(Members(ctx)) :
        i # k => Members(ctx)[i][1] # Members(ctx)[k][1]

\* C1: while a reset/destroy holds the lock for writing, no call is inside
\* its pool.Exec step or holds the lock for reading, so a call that arrives
\* during the write section starts pool.Exec only after it; the calls that
\* hold the read lock are exactly those between RLock and RUnlock.
C1_NoOverlap ==
    /\ writer = "active" => \A c \in Calls : pc[c] \notin {"exec", "runlock"}
    /\ readers = {c \in Calls : pc[c] \in {"exec", "runlock"}}

\* C1 witness: during a write section one call waits at RLock, and another
\* call has been through pool.Exec.
C1_Witness ==
    /\ writer = "active"
    /\ \E c, d \in Calls : pc[c] = "rlock" /\ nexec[d] = 1

\* C2 (as claimed): every invocation of invoke, whatever its outcome, has
\* made exactly one pool.Exec call, one Payload acquire and one release by
\* the time it returns.
C2_ExactlyOneExec ==
    \A c \in Calls :
        Invoked(c) => nexec[c] = 1 /\ nget[c] = 1 /\ nput[c] = 1

\* C2 (amended): every invocation has made exactly one Payload acquire and
\* then exactly one release by the time it returns, and holds no Payload
\* afterwards; it has made exactly one pool.Exec call, except when payload
\* construction failed, where it has made none; pool.Exec is never called a
\* second time, a pool failure included.
C2_OneExecUnlessNoPayload ==
    \A c \in Calls :
        /\ nexec[c] <= 1 /\ nget[c] <= 1 /\ nput[c] <= nget[c]
        /\ Invoked(c) =>
              /\ nget[c] = 1 /\ nput[c] = 1 /\ pld[c] = 0
              /\ nexec[c] = IF ret[c].err = MarshalError /\ out[c] = None
                            THEN 0 ELSE 1

\* C2 witness: one call returned after a pool failure and another after a
\* success.
C2_Witness ==
    \E c, d \in Calls :
        /\ Invoked(c) /\ out[c] # None /\ out[c].err # NilErr
        /\ Invoked(d) /\ ExecOK(d) /\ result[d].err = NilErr

\* the request context as the worker reads it from the payload
WorkerView(context) ==
    [service |-> context.doc.pairs[1][2].s,
     method |-> context.doc.pairs[2][2].s,
     keys |-> {context.doc.pairs[3][2].pairs[i][1] :
                  i \in 1..Len(context.doc.pairs[3][2].pairs)},
     values |-> {<<context.doc.pairs[3][2].pairs[i][1],
                   [k \in 1..Len(context.doc.pairs[3][2].pairs[i][2].items) |->
                       context.doc.pairs[3][2].pairs[i][2].items[k].s]>> :
                  i \in 1..Len(context.doc.pairs[3][2].pairs)}]

\* C3: every pool.Exec call reads a payload whose body is the request body
\* of its own call and whose context is the JSON RpcContext of its own call:
\* the proxy's service name, the call's method and the call's metadata.
C3_OwnPayload ==
    \A c \in Calls :
        seen[c] # None =>
            /\ seen[c].body = req[c].body
            /\ seen[c].context.form = "json"
            /\ WorkerView(seen[c].context).service = ProxyName
            /\ WorkerView(seen[c].context).method = req[c].method
            /\ WorkerView(seen[c].context).values =
                  {<<k, ContextMap(req[c])[k]>> :
                      k \in DOMAIN ContextMap(req[c])}

\* C3 witness: two calls with different bodies and methods have both been
\* through pool.Exec using one and the same pooled Payload object.
C3_Witness ==
    \E c, d \in Calls :
        /\ seen[c] # None /\ seen[d] # None
        /\ req[c].body # req[d].body /\ req[c].method # req[d].method
        /\ Len(objs) = 1

\* the context of the response of call c
RespContext(c) == out[c].resp.Context

\* a context that is a JSON object of string members with distinct keys,
\* none of them "error" in any letter case
PlainStringObject(ctx) ==
    /\ IsObject(ctx) /\ AllStrings(ctx) /\ DistinctKeys(ctx)
    /\ \A i \in 1..Len(Members(ctx)) : ToLower(Members(ctx)[i][1]) # apiErr

Entries(md) == UNION {{<<k, md[k][i]>> : i \in 1..Len(md[k])} : k \in DOMAIN md}

C7_OnlyStatusErrors ==
    \A c \in Calls :
        (pc[c] = "done" /\ result[c].err \notin {NilErr, Panic})
            => result[c].err.kind = "status"

\* C14: a call holds the shared lock for reading exactly while it is in its
\* pool.Exec step, between RLock and RUnlock: not while it acquires the
\* Payload, builds the context or waits for the lock, not while it translates
\* the pool's error, reads the response metadata or sets the header, and not
\* once invoke has returned.
C14_LockOnlyAroundExec ==
    \A c \in Calls :
        /\ c \in readers <=> pc[c] \in {"exec", "runlock"}
        /\ pc[c] \in {"idle", "getPld", "makePayload", "rlock", "post",
                      "putPld", "done"} => c \notin readers
        /\ nexec[c] = 1 /\ pc[c] # "runlock" => c \notin readers

\* C14 witness: one call is past a failed pool.Exec and about to translate
\* the error while another is inside pool.Exec, which alone holds the lock.
C14_Witness ==
    \E c, d \in Calls :
        /\ pc[c] = "post" /\ out[c].err # NilErr
        /\ pc[d] = "exec"
        /\ readers = {d}

\* C17: a Payload object is held by at most one call at a time and is not in
\* the pool meanwhile; every object resting in the pool has body and context
\* cleared; a call holds a Payload exactly from getPld to putPld, which is
\* when it writes and reads it, and none afterwards; and every Payload a call
\* holds, and every Payload the pool was handed, carries the JSON codec.
C17_PayloadPool ==
    /\ \A c, d \in Calls : (c # d /\ pld[c] # 0) => pld[c] # pld[d]
    /\ \A c \in Calls :
          /\ pld[c] # 0 <=> pc[c] \in {"makePayload", "rlock", "exec",
                                       "runlock", "post", "putPld"}
          /\ pld[c] # 0 => /\ pld[c] \in 1..Len(objs)
                           /\ pld[c] \notin pooled
                           /\ objs[pld[c]].Codec = CodecJSON
          /\ seen[c] # None => seen[c].codec = CodecJSON
    /\ \A id \in pooled :
          objs[id].Body = NilBytes /\ objs[id].Context = NilBytes

\* C17 witness: a call that went through the pool has released the only
\* Payload object there is, and another call has taken it and filled it.
C17_Witness ==
    \E c, d \in Calls :
        /\ pc[c] = "done" /\ nexec[c] = 1 /\ nput[c] = 1
        /\ pc[d] = "exec" /\ pld[d] = 1
        /\ Len(objs) = 1 /\ pooled = {}

\* C16: a handler decodes the body first; when that fails it returns the
\* translated error and calls neither invoke nor the interceptor; otherwise
\* with an interceptor it calls the interceptor with the decoded body, a
\* call-info carrying the service and method names as "/<service>/<method>"
\* and a handler closure that invokes for the same method, and without one
\* it calls invoke directly with the decoded body.
C16_DecodeThenRoute ==
    \A c \in Calls :
        pc[c] # "idle" =>
            IF req[c].dec # NilErr
            THEN /\ pc[c] = "done"
                 /\ result[c] =
                      [body |-> None,
                       err |-> StatusErr(Internal, req[c].dec.msg, <<>>)]
                 /\ via[c] = None /\ inv[c] = None
                 /\ nget[c] = 0 /\ nexec[c] = 0
            ELSE /\ inv[c] = [method |-> req[c].method, body |-> req[c].body]
                 /\ req[c].interceptor =>
                      via[c] = [req |-> req[c].body,
                                info |-> Join(<< <<>>, ProxyName, req[c].method >>,
                                              S(<<"/">>)),
                                handler |-> req[c].method]
                 /\ ~req[c].interceptor => via[c] = None

\* C16 witness: a call for Bye with a body went through the interceptor and
\* the pool, and a result is back.
C16_Witness ==
    \E c \in Calls :
        /\ Invoked(c) /\ via[c] # None
        /\ via[c].handler = Bye /\ via[c].req = Raw(Ping)
        /\ nexec[c] = 1

\* C19 (as claimed): the context map sent to the worker has every inbound
\* metadata key with its full value list, ":peer.address" with the peer's
\* address whenever there is peer information, ":peer.auth-type" exactly when
\* the peer has authentication info, and with peer information the values
\* under the two reserved keys are the peer's, never the metadata's.
C19_ReservedKeysFromPeer ==
    \A c \in Calls :
        seen[c] # None =>
            /\ req[c].md.ok =>
                 \A k \in DOMAIN req[c].md.m \ {peerAddr, peerAuthType} :
                     <<k, req[c].md.m[k]>> \in WorkerView(seen[c].context).values
            /\ req[c].peer.ok =>
                 <<peerAddr, <<req[c].peer.addr>>>>
                     \in WorkerView(seen[c].context).values
            /\ peerAuthType \in WorkerView(seen[c].context).keys
                 <=> (req[c].peer.ok /\ req[c].peer.hasAuth)
            /\ req[c].peer.ok =>
                 \A kv \in WorkerView(seen[c].context).values :
                     /\ kv[1] = peerAddr => kv[2] = <<req[c].peer.addr>>
                     /\ kv[1] = peerAuthType =>
                          (req[c].peer.hasAuth /\ kv[2] = <<req[c].peer.auth>>)

\* C20: the interceptor is transparent: a call routed through it calls the
\* handler closure, and so invoke, exactly once, with the request and the
\* method the handler was given; what the call returns is what invoke
\* returned, the body on success and no body with invoke's error on failure,
\* as for a call without interceptor; and the pool is executed as often as
\* without it, once unless the payload could not be built.
C20_InterceptorTransparent ==
    \A c \in Calls :
        Invoked(c) =>
            /\ result[c] = ret[c]
            /\ ret[c].err # NilErr => result[c] = [body |-> None, err |-> ret[c].err]
            /\ nget[c] = 1
            /\ nexec[c] = IF out[c] = None THEN 0 ELSE 1
            /\ inv[c] = [method |-> req[c].method, body |-> req[c].body]
            /\ via[c] # None <=> req[c].interceptor
            /\ via[c] # None =>
                  /\ via[c].req = req[c].body
                  /\ via[c].handler = req[c].method
            /\ seen[c] # None => seen[c].body = req[c].body

\* C20 witness: a call through the interceptor came back with the status
\* the worker embedded in its response, and no body.
C20_Witness ==
    \E c \in Calls :
        /\ Invoked(c) /\ via[c] # None /\ ExecOK(c)
        /\ result[c] = [body |-> None, err |-> StatusErr(U32(3), BadArg, <<>>)]

-----------------------------------------------------------------------------
(* Properties of error translation (SpecWrap) *)

\* the last error of a chain of wrappers: the one that wraps nothing
RECURSIVE Cause(_)
Cause(e) == IF e.kind = "wrap" THEN Cause(e.err) ELSE e

\* wrapError has run on a chain that ends in an error with a message
Translated == wpc = "out" /\ Cause(werr).kind = "plain"

InnermostMsg == Cause(werr).msg

\* the first segment of a delimited innermost message
FirstSeg == Split(InnermostMsg, delimiter)[1]

\* C8 (as claimed): translating an error whose innermost message has no
\* delimiter gives a status with code Internal whose message is exactly the
\* innermost message, at every depth of wrapping.
C8_InnermostVerbatim ==
    (Translated /\ ~Contains(InnermostMsg, delimiter))
        => wres = StatusErr(Internal, InnermostMsg, <<>>)

\* C8 (amended): translating an error whose innermost message has no
\* delimiter gives a status with code Internal and no details whose message
\* is the Error() text of the error that was passed in; for an error that is
\* not wrapped this is the innermost message.
C8_FullTextVerbatim ==
    (Translated /\ ~Contains(InnermostMsg, delimiter))
        => /\ wres = StatusErr(Internal, ErrorString(werr), <<>>)
           /\ (werr.kind = "plain" => wres.msg = InnermostMsg)

\* C8 witness: a wrapped error with an Op and no delimiter was translated,
\* and the status message is longer than the innermost message.
C8_Witness ==
    /\ Translated
    /\ werr.kind = "wrap"
    /\ ~Contains(InnermostMsg, delimiter)
    /\ wres.kind = "status"
    /\ Len(wres.msg) > Len(InnermostMsg)

\* C9 (as claimed): a delimited message whose first segment parses as an
\* unsigned 32-bit integer c with 0 < c < 2^32 gives a status whose code is
\* exactly c, the largest 32-bit value included.
C9_CodeIsFirstSegment ==
    (Translated /\ Contains(InnermostMsg, delimiter)
        /\ ~ParseUint(FirstSeg).err /\ ParseUint(FirstSeg).val # U32(0))
        => (wres.kind = "status" /\ wres.code = ParseUint(FirstSeg).val)

\* C10 (as claimed): a delimited message whose first segment is non-numeric
\* or out of the range (0, 2^32) gives back the error that was passed in.
C10_OriginalOnBadCode ==
    (Translated /\ Contains(InnermostMsg, delimiter)
        /\ (ParseUint(FirstSeg).err \/ ParseUint(FirstSeg).val = U32(0)))
        => wres = werr

\* C10 (amended): a delimited message whose first segment does not parse as
\* an unsigned 32-bit integer (not a digit string, or 2^32 or more) gives
\* back the error that was passed in, and a first segment that parses never
\* does: it gives a status error (with code Internal for the value 0).
C10_OriginalOnParseFailure ==
    (Translated /\ Contains(InnermostMsg, delimiter))
        => /\ ParseUint(FirstSeg).err => wres = werr
           /\ ~ParseUint(FirstSeg).err => wres.kind = "status"
           /\ (~ParseUint(FirstSeg).err /\ ParseUint(FirstSeg).val = U32(0))
                => wres.code = Internal

\* C10 witness: a wrapped error whose first segment is 2^32 came back as it
\* was passed in.
C10_Witness ==
    /\ Translated
    /\ werr.kind = "wrap"
    /\ Contains(InnermostMsg, delimiter)
    /\ FirstSeg = S(<<"4", "2", "9", "4", "9", "6", "7", "2", "9", "6">>)
    /\ wres = werr

\* the segments of a delimited innermost message
Segs == Split(InnermostMsg, delimiter)

\* the Any messages of those segments that deserialize, in order
RECURSIVE Deserialized(_)
Deserialized(segs) ==
    IF segs = <<>> THEN <<>>
    ELSE (IF UnmarshalAny(Head(segs)).err THEN <<>>
          ELSE <<UnmarshalAny(Head(segs)).msg>>) \o Deserialized(Tail(segs))

\* C15: for a delimited message whose first segment parses as a code, the
\* status message is exactly the second segment and the details are exactly
\* the Any messages of the third and later segments that deserialize, in
\* order; a segment that does not deserialize is dropped and nothing else
\* changes.
C15_MessageAndDetails ==
    (Translated /\ Contains(InnermostMsg, delimiter) /\ ~ParseUint(FirstSeg).err)
        => /\ wres.kind = "status"
           /\ wres.msg = Segs[2]
           /\ wres.details = Deserialized(SubSeq(Segs, 3, Len(Segs)))

\* C15 witness: a message with code 5 and three detail segments, the second
\* of which does not deserialize, gave a status with the first and the third.
C15_Witness ==
    /\ Translated /\ Contains(InnermostMsg, delimiter)
    /\ FirstSeg = S(<<"5">>)
    /\ Len(Segs) = 5
    /\ UnmarshalAny(Segs[4]).err
    /\ wres.kind = "status"
    /\ wres.details = <<UnmarshalAny(AnyAB).msg, UnmarshalAny(AnyT).msg>>

\* C18 (as claimed): unwrapping any finite chain of wrappers terminates and
\* gives the message of the innermost error, also for a chain whose last
\* element is a wrapper with no cause.
C18_UnwrapTerminates ==
    wpc = "out" =>
        /\ ~GetOriginalErr(werr).panic
        /\ wres # Panic
        /\ Cause(werr).kind = "plain" => GetOriginalErr(werr).msg = InnermostMsg

-----------------------------------------------------------------------------
(* Properties of the server assembly (SpecServer) *)

\* the entries of descriptor d under the name m
HandlersOf(d, m) == {k \in 1..Len(d.Methods) : d.Methods[k].MethodName = m}

\* the handler of an entry of descriptor d sends the pool the entry's name as
\* the method and the descriptor's name as the service
Dispatches(d, k) ==
    /\ WorkerView(JsonText(HandlerContext(d.Methods[k].Handler))).method =
           d.Methods[k].MethodName
    /\ WorkerView(JsonText(HandlerContext(d.Methods[k].Handler))).service =
           d.ServiceName

\* C11 (as claimed): after any sequence of RegisterMethod calls, ServiceDesc
\* has exactly one handler per distinct registered name, and the handler
\* under a name invokes the pool with that name and the proxy's service name.
C11_OneHandlerPerName ==
    \A r \in 1..Len(registered) :
        /\ \A j \in 1..Len(registered[r].impl.methods) :
              Cardinality(HandlersOf(registered[r].desc,
                                     registered[r].impl.methods[j])) = 1
        /\ \A k \in 1..Len(registered[r].desc.Methods) :
              Dispatches(registered[r].desc, k)

\* C11 (amended): after any sequence of RegisterMethod calls, ServiceDesc has
\* exactly one handler per call, in the order of the calls and under the name
\* of the call, so a name registered n times has n handlers; each handler
\* invokes the pool with the name it is stored under and the proxy's service
\* name.
C11_OneHandlerPerRegistration ==
    \A r \in 1..Len(registered) :
        /\ Len(registered[r].desc.Methods) = Len(registered[r].impl.methods)
        /\ registered[r].desc.ServiceName = registered[r].impl.name
        /\ \A k \in 1..Len(registered[r].desc.Methods) :
              /\ registered[r].desc.Methods[k].MethodName =
                     registered[r].impl.methods[k]
              /\ Dispatches(registered[r].desc, k)
              /\ Cardinality(HandlersOf(registered[r].desc,
                                        registered[r].impl.methods[k])) =
                   Cardinality({j \in 1..Len(registered[r].impl.methods) :
                                   registered[r].impl.methods[j] =
                                       registered[r].impl.methods[k]})

\* C11 witness: a descriptor was built after RegisterMethod of Bye, Hello and
\* Bye again, and another after RegisterMethod of Hello and Bye.
C11_Witness ==
    /\ \E r \in 1..Len(registered) :
          registered[r].impl.methods = <<Bye, Hello, Bye>>
    /\ \E r \in 1..Len(registered) :
          registered[r].impl.methods = <<Hello, Bye>>

\* the option of that name among the options serverOptions returned
Option(name) == opts[CHOOSE k \in 1..Len(opts) : opts[k].opt = name]

\* C12 (as claimed): each tuning value handed to the transport server is the
\* configured value of the same name.
C12_TuningPassedThrough ==
    opts # None =>
        /\ Option("MaxSendMsgSize").v = config.MaxSendMsgSize
        /\ Option("MaxRecvMsgSize").v = config.MaxRecvMsgSize
        /\ Option("KeepaliveParams").MaxConnectionIdle = config.MaxConnectionIdle
        /\ Option("KeepaliveParams").MaxConnectionAge = config.MaxConnectionAge
        /\ Option("KeepaliveParams").MaxConnectionAgeGrace =
               config.MaxConnectionAgeGrace
        /\ Option("KeepaliveParams").Time = config.PingTime
        /\ Option("KeepaliveParams").Timeout = config.Timeout
        /\ Option("MaxConcurrentStreams").v = U32(config.MaxConcurrentStreams)

\* the services declared in the non-empty proto paths from index k on
RECURSIVE Declared(_)
Declared(k) ==
    IF k > Len(config.Proto) THEN <<>>
    ELSE (IF config.Proto[k] = <<>> THEN <<>>
          ELSE files[config.Proto[k]].services) \o Declared(k + 1)

\* C13: after a successful assembly there is exactly one registered proxy per
\* service declared in the non-empty proto paths, each with the methods of
\* its service registered in declaration order, and all proxies hold the
\* plugin's lock and the plugin's pool.
C13_OneProxyPerService ==
    spc = "done" =>
        /\ Len(proxyList) = Len(Declared(1))
        /\ Len(registered) = Len(proxyList)
        /\ \A k \in 1..Len(proxyList) :
              /\ proxyList[k].name = ServiceName(Declared(1)[k])
              /\ proxyList[k].methods = Declared(1)[k].Methods
              /\ proxyList[k].mu = mu
              /\ proxyList[k].grpcPool = gPool
              /\ registered[k].impl = proxyList[k]
              /\ registered[k].desc.ServiceName = proxyList[k].name
        /\ \A k, j \in 1..Len(proxyList) :
              /\ k # j => proxyList[k].name # proxyList[j].name
              /\ proxyList[k].mu = proxyList[j].mu
              /\ proxyList[k].grpcPool = proxyList[j].grpcPool

\* C13 witness: an assembly with an empty path and a path declaring two
\* services has succeeded with two proxies.
C13_Witness ==
    /\ spc = "done"
    /\ \E k \in 1..Len(config.Proto) : config.Proto[k] = <<>>
    /\ Len(proxyList) = 2
    /\ proxyList[1].methods # proxyList[2].methods

====
